---- MODULE Spec2Model ----
(***************************************************************************)
(* Random-restart hill climbing over keyboard layouts with a shared,       *)
(* deduplicated SQLite store (src/src/main.rs).                            *)
(*                                                                         *)
(* A layout is a sequence of symbols; symbols are the integers             *)
(* 1..NumSymbols (the letters of ALPHABET), and 0 stands for a character   *)
(* that is not a letter of ALPHABET.  Costs are f64 in the program; the    *)
(* frequencies of the model are positive integers and a cost is an integer *)
(* rounded to MantissaBits significant bits, as f64 rounds to 53.          *)
(***************************************************************************)
EXTENDS Integers, Sequences, FiniteSets

\* ------------------------------------------------------------- bounds
\* Length of ALPHABET (26 in the program).
NumSymbols == 4
\* CONCURRENT_TASKS (13 in the program).
CONCURRENT_TASKS == 2
\* MAX_TRIES (100000000 in the program).
MAX_TRIES == 3
\* Largest frequency of a bigram file of the model.
MaxFreq == 2
\* Largest number of bigrams of a bigram file given to find_valley alone.
MaxBigrams == 2
\* Largest number of lines of the bigram file of a whole run.
RunBigrams == 2
\* Significant bits of a cost (53 in f64).
MantissaBits == 4

VARIABLES
    bigram_freq,   \* main: the HashMap loaded from bigrams.txt
    store,         \* the rows of table layouts, in insertion (id) order
    lock,          \* the tokio Mutex around the connection: 0 free, else its holder
    pc,            \* each task's position in the closure of main
    tries,         \* each task's count of completed iterations of its for loop
    layout,        \* each task: find_valley's layout / valley.layout
    current_cost,  \* each task: find_valley's current_cost / valley.cost
    steps,         \* each task: find_valley's steps / valley.steps
    saved,         \* each task: what its last save_to_db call returned
    stdout,        \* for each layout, the number of "Found valley" lines printed
    stderr,        \* the number of "Failed to save to DB" lines printed
    mainpc,        \* main's position: "join" or "exit"
    calls          \* the calls of a sequential caller, in order

vars == <<bigram_freq, store, lock, pc, tries, layout, current_cost, steps,
          saved, stdout, stderr, mainpc, calls>>

\* ------------------------------------------------------------- data
Positions == 1..NumSymbols

ALPHABET == [i \in Positions |-> i]

\* A character of a bigram file: a letter, or 0 for any other character.
Chars == 0..NumSymbols

Tasks == 1..CONCURRENT_TASKS

Range(s) == {s[i] : i \in DOMAIN s}

IsPermutation(l) ==
    /\ DOMAIN l = Positions
    /\ \A c \in Range(ALPHABET) : Cardinality({i \in DOMAIN l : l[i] = c}) = 1

Layouts == {l \in [Positions -> Range(ALPHABET)] : IsPermutation(l)}

\* A HashMap is the sequence of its entries <<key, value>>, of distinct
\* keys, in the order in which iter() visits them.  The order comes from the
\* hashes under the map's RandomState, which every new map draws afresh.
Keys(map) == {map[n][1] : n \in DOMAIN map}

\* The HashMaps of n entries, in every iteration order.
\* Frequencies are positive integers here; the parser also accepts zero,
\* negative and non-finite numbers, which the model leaves out.
FrequencyTables(n) ==
    {map \in [1..n -> (Chars \X Chars) \X (1..MaxFreq)] :
        \A i, j \in 1..n : map[i][1] = map[j][1] => i = j}

\* The empty HashMap.
NoBigrams == <<>>

\* bigrams.insert((a, b), freq): the value of a key of the map is replaced
\* where it is; a new key takes the place its hash gives it.
MapInsert(map, key, value) ==
    IF key \in Keys(map)
    THEN {[n \in DOMAIN map |-> IF map[n][1] = key THEN <<key, value>> ELSE map[n]]}
    ELSE {SubSeq(map, 1, p - 1) \o <<<<key, value>>>> \o SubSeq(map, p, Len(map))
          : p \in 1..(Len(map) + 1)}

\* The HashMaps load_bigram_frequencies can return on the well-formed lines
\* <<a, b, freq>> of a file.
RECURSIVE load_bigram_frequencies(_)
load_bigram_frequencies(lines) ==
    IF lines = <<>> THEN {NoBigrams}
    ELSE LET n == Len(lines)
         IN  UNION {MapInsert(map, <<lines[n][1], lines[n][2]>>, lines[n][3])
                    : map \in load_bigram_frequencies(SubSeq(lines, 1, n - 1))}

\* The bigrams.txt of a whole run: the first lines, at most RunBigrams, of
\* "ab 1", "ac 1", "-d 2", "ab 2", "ca 2".
SampleFile == <<<<1, 2, 1>>, <<1, 3, 1>>, <<0, 4, 2>>, <<1, 2, 2>>, <<3, 1, 2>>>>

RunFiles == {SubSeq(SampleFile, 1, n) : n \in 0..RunBigrams}

\* ------------------------------------------------------------- calculate_cost
\* layout.iter().position(|&x| x == c): the first index, 0 for None.
Position(l, c) ==
    IF \E i \in DOMAIN l : l[i] = c
    THEN CHOOSE i \in DOMAIN l : l[i] = c /\ \A k \in DOMAIN l : l[k] = c => i <= k
    ELSE 0

\* A faulty variant of the distance: the difference with its sign.
Difference(a, b) == a - b

\* pos_a.abs_diff(pos_b)
abs_diff(a, b) == IF a >= b THEN a - b ELSE b - a

\* The integers the arithmetic of a cost can meet, before rounding.
CostRange == -(2^(MantissaBits + 3))..2^(MantissaBits + 3)

\* f64 arithmetic on the integers of the model: a result is rounded to
\* MantissaBits significant bits, ties to even (53 bits in f64).
fround ==
    [x \in CostRange |->
        IF x < 2^MantissaBits THEN x
        ELSE LET e == CHOOSE k \in 1..x : 2^(MantissaBits - 1 + k) <= x /\ x < 2^(MantissaBits + k)
                 ulp == 2^e
                 q == x \div ulp
                 r == x % ulp
             IN  IF 2 * r < ulp \/ (2 * r = ulp /\ q % 2 = 0) THEN q * ulp ELSE (q + 1) * ulp]

fadd(x, y) == fround[x + y]

fmul(x, y) == fround[x * y]

\* The fold over the entries of the HashMap, in the order of iter(): each
\* bigram whose two characters are in the layout adds freq * |pos_a - pos_b|.
calculate_cost(l, freq) ==
    LET fold[n \in 0..Len(freq)] ==
            IF n = 0 THEN 0
            ELSE LET cost == fold[n - 1]
                     pos_a == Position(l, freq[n][1][1])
                     pos_b == Position(l, freq[n][1][2])
                 IN  IF pos_a # 0 /\ pos_b # 0
                     THEN fadd(cost, fmul(freq[n][2], abs_diff(pos_a, pos_b)))
                     ELSE cost
    IN  fold[Len(freq)]

\* ------------------------------------------------------------- find_valley
\* A faulty variant of the swap: it copies one entry over the other.
SwapCopies(l, i, j) == [l EXCEPT ![i] = l[j]]

\* layout.swap(i, j)
Swap(l, i, j) == [l EXCEPT ![i] = l[j], ![j] = l[i]]

\* A faulty variant without the second layout.swap(i, j) of the inner loop.
SwapBackForgotten(l, i, j) == l

\* The second layout.swap(i, j) of the inner loop, which undoes the first.
SwapBack(l, i, j) == Swap(l, i, j)

\* Faulty variants of the comparison: one asks for a margin, one accepts ties.
ImprovesByMargin(new_cost, best_swap_cost) == new_cost + 1 < best_swap_cost

ImprovesOrTies(new_cost, best_swap_cost) == new_cost <= best_swap_cost

\* new_cost < best_swap_cost
Improves(new_cost, best_swap_cost) == new_cost < best_swap_cost

NoSwap == <<>>

\* A faulty variant that counts an iteration only when it applies a swap.
CountStepOnSwap(n, best_swap) == IF best_swap # NoSwap THEN n + 1 ELSE n

\* steps += 1, before the if let on best_swap.
CountStep(n, best_swap) == n + 1

\* A task that holds no layout.
NoLayout == <<>>

\* The states of the two for loops of one iteration: the layout, the
\* candidate (i, j) to try next, and best_swap and best_swap_cost so far.
ScanStates ==
    [layout : [Positions -> Range(ALPHABET)],
     i : 1..(NumSymbols + 1), j : 2..(NumSymbols + 2),
     best_swap : {NoSwap} \cup (Positions \X Positions), best_swap_cost : Int]

\* One iteration of the loop of find_valley up to steps += 1: for i in 0..26,
\* for j in i + 1..26, swap, compare, swap back.  Returns the state after
\* the loops.
Pass(l, freq, cost) ==
    LET scan[a \in ScanStates] ==
            IF a.i > NumSymbols THEN a
            ELSE IF a.j > NumSymbols THEN scan[[a EXCEPT !.i = a.i + 1, !.j = a.i + 2]]
            ELSE LET swapped == Swap(a.layout, a.i, a.j)
                     new_cost == calculate_cost(swapped, freq)
                 IN  IF Improves(new_cost, a.best_swap_cost)
                     THEN scan[[a EXCEPT !.layout = SwapBack(swapped, a.i, a.j), !.j = a.j + 1,
                                         !.best_swap = <<a.i, a.j>>,
                                         !.best_swap_cost = new_cost]]
                     ELSE scan[[a EXCEPT !.layout = SwapBack(swapped, a.i, a.j), !.j = a.j + 1]]
    IN  scan[[layout |-> l, i |-> 1, j |-> 2, best_swap |-> NoSwap, best_swap_cost |-> cost]]

\* ------------------------------------------------------------- the store
\* Faulty variants of the store's operations: a query that finds nothing, a
\* table without the UNIQUE constraint, an INSERT that binds cost and steps
\* the wrong way round, one that inserts nothing, one that overwrites the
\* last row.
RowExistsNever(rows, l) == FALSE

UniqueViolationNever(rows, l) == FALSE

InsertRowSwapped(rows, l, cost, st) == Append(rows, [layout |-> l, cost |-> st, steps |-> cost])

InsertRowDropped(rows, l, cost, st) == rows

InsertRowOverLast(rows, l, cost, st) ==
    SubSeq(rows, 1, Len(rows) - 1) \o <<[layout |-> l, cost |-> cost, steps |-> st]>>

\* SELECT layout FROM layouts WHERE layout = ?1 finds a row.
RowExists(rows, l) == \E k \in DOMAIN rows : rows[k].layout = l

\* The UNIQUE constraint of column layout: a row with this layout is there.
UniqueViolation(rows, l) == l \in {rows[k].layout : k \in DOMAIN rows}

\* INSERT INTO layouts (layout, cost, steps) VALUES (?1, ?2, ?3), accepted.
InsertRow(rows, l, cost, st) == Append(rows, [layout |-> l, cost |-> cost, steps |-> st])

\* A faulty variant of the share, rounded up.
ShareRoundedUp == (MAX_TRIES + CONCURRENT_TASKS - 1) \div CONCURRENT_TASKS

\* Each task's share of the trials.
Share == MAX_TRIES \div CONCURRENT_TASKS

\* ------------------------------------------------------------- Init
\* The state before main runs: nothing loaded, no task spawned.
Init ==
    /\ bigram_freq = NoBigrams
    /\ store = <<>>
    /\ lock = 0
    /\ pc = [w \in Tasks |-> "unspawned"]
    /\ tries = [w \in Tasks |-> 0]
    /\ layout = [w \in Tasks |-> NoLayout]
    /\ current_cost = [w \in Tasks |-> 0]
    /\ steps = [w \in Tasks |-> 0]
    /\ saved = [w \in Tasks |-> "none"]
    /\ stdout = [l \in Layouts |-> 0]
    /\ stderr = 0
    /\ mainpc = "start"
    /\ calls = <<>>

\* ------------------------------------------------------------- the tasks
\* layout.shuffle(rng): every ordering of the sequence can come out.
Shuffle(s) ==
    LET Perms == {p \in [DOMAIN s -> DOMAIN s] : \A i, j \in DOMAIN s : p[i] = p[j] => i = j}
    IN  {[i \in DOMAIN s |-> s[p[i]]] : p \in Perms}

generate_random_layout == Shuffle(ALPHABET)

\* What the closure does after one iteration of its for loop.
\* The valley of the iteration is dropped with it.
NextTrial(w) ==
    /\ tries' = [tries EXCEPT ![w] = @ + 1]
    /\ pc' = [pc EXCEPT ![w] = "loop"]
    /\ layout' = [layout EXCEPT ![w] = NoLayout]
    /\ current_cost' = [current_cost EXCEPT ![w] = 0]
    /\ steps' = [steps EXCEPT ![w] = 0]

\* A faulty variant that takes the lock whether it is free or not.
AcquireUnguarded(w) == lock' = w

\* conn.lock().await
Acquire(w) == lock = 0 /\ lock' = w

\* A faulty variant in which the guard is never dropped.
ReleaseNever(w) == lock' = lock

\* The MutexGuard is dropped.
Release(w) == lock' = 0

\* for _ in 0..(MAX_TRIES / CONCURRENT_TASKS): a trial starts with a random
\* layout and find_valley's first two statements.
Generate(w) ==
    /\ pc[w] = "loop"
    /\ tries[w] < Share
    /\ \E initial_layout \in generate_random_layout :
          /\ layout' = [layout EXCEPT ![w] = initial_layout]
          /\ current_cost' = [current_cost EXCEPT ![w] = calculate_cost(initial_layout, bigram_freq)]
    /\ steps' = [steps EXCEPT ![w] = 0]
    /\ saved' = [saved EXCEPT ![w] = "none"]
    /\ pc' = [pc EXCEPT ![w] = "find_valley"]
    /\ UNCHANGED <<bigram_freq, store, lock, tries, stdout, stderr, mainpc>>

\* One iteration of find_valley's loop: the scan of all pairs, steps += 1,
\* then the best swap applied, or the return.
Iterate(w) ==
    /\ pc[w] = "find_valley"
    /\ \E r \in {Pass(layout[w], bigram_freq, current_cost[w])} :
           /\ steps' = [steps EXCEPT ![w] = CountStep(@, r.best_swap)]
           /\ IF r.best_swap # NoSwap
              THEN /\ layout' = [layout EXCEPT ![w] = Swap(r.layout, r.best_swap[1], r.best_swap[2])]
                   /\ current_cost' = [current_cost EXCEPT ![w] = r.best_swap_cost]
                   /\ pc' = pc
              ELSE /\ layout' = [layout EXCEPT ![w] = r.layout]
                   /\ current_cost' = current_cost
                   /\ pc' = [pc EXCEPT ![w] = "check_lock"]
    /\ UNCHANGED <<bigram_freq, store, lock, tries, saved, stdout, stderr, mainpc>>

\* main's layout_exists call: the lock.
CheckLock(w) ==
    /\ pc[w] = "check_lock"
    /\ Acquire(w)
    /\ pc' = [pc EXCEPT ![w] = "check_query"]
    /\ UNCHANGED <<bigram_freq, store, tries, layout, current_cost, steps, saved,
                   stdout, stderr, mainpc, calls>>

\* main's layout_exists call: the query, the guard dropped, and the if.
CheckQuery(w) ==
    /\ pc[w] = "check_query"
    /\ Release(w)
    /\ IF RowExists(store, layout[w])
       THEN NextTrial(w)
       ELSE /\ pc' = [pc EXCEPT ![w] = "print"]
            /\ UNCHANGED <<tries, layout, current_cost, steps>>
    /\ UNCHANGED <<bigram_freq, store, saved, stdout, stderr, mainpc, calls>>

\* println!("Found valley: ...")
Report(w) ==
    /\ pc[w] = "print"
    /\ stdout' = [stdout EXCEPT ![layout[w]] = @ + 1]
    /\ pc' = [pc EXCEPT ![w] = "save_lock"]
    /\ UNCHANGED <<bigram_freq, store, lock, tries, layout, current_cost, steps,
                   saved, stderr, mainpc, calls>>

\* save_to_db's layout_exists call: the lock.
SaveLock(w) ==
    /\ pc[w] = "save_lock"
    /\ Acquire(w)
    /\ pc' = [pc EXCEPT ![w] = "save_query"]
    /\ UNCHANGED <<bigram_freq, store, tries, layout, current_cost, steps, saved,
                   stdout, stderr, mainpc, calls>>

\* save_to_db's layout_exists call: the query, the guard dropped, and the
\* early return Ok(()).
SaveQuery(w) ==
    /\ pc[w] = "save_query"
    /\ Release(w)
    /\ IF RowExists(store, layout[w])
       THEN saved' = [saved EXCEPT ![w] = "Ok"] /\ NextTrial(w)
       ELSE /\ pc' = [pc EXCEPT ![w] = "insert_lock"]
            /\ UNCHANGED <<saved, tries, layout, current_cost, steps>>
    /\ UNCHANGED <<bigram_freq, store, stdout, stderr, mainpc, calls>>

\* save_to_db: let conn = conn.lock().await
InsertLock(w) ==
    /\ pc[w] = "insert_lock"
    /\ Acquire(w)
    /\ pc' = [pc EXCEPT ![w] = "insert"]
    /\ UNCHANGED <<bigram_freq, store, tries, layout, current_cost, steps, saved,
                   stdout, stderr, mainpc, calls>>

\* What conn.execute(INSERT ...) can return in a state: the row is refused
\* by the UNIQUE constraint, or is inserted, or the statement fails for
\* another reason (an I/O error, a busy database file).
InsertOutcomes(rows, l) ==
    (IF UniqueViolation(rows, l) THEN {"ErrConstraint"} ELSE {"Ok"}) \cup {"ErrIo"}

\* A faulty variant that prints nothing.
MapErrSilent(result) == stderr' = stderr

\* The caller of save_to_db: .map_err(|e| eprintln!("Failed to save to DB: {e}"))
MapErr(result) == stderr' = IF result = "Ok" THEN stderr ELSE stderr + 1

\* save_to_db: conn.execute(INSERT ...)?, the guard dropped, the result
\* returned to the caller.
Insert(w) ==
    /\ pc[w] = "insert"
    /\ \E result \in InsertOutcomes(store, layout[w]) :
          /\ store' = IF result = "Ok"
                      THEN InsertRow(store, layout[w], current_cost[w], steps[w])
                      ELSE store
          /\ saved' = [saved EXCEPT ![w] = result]
          /\ MapErr(result)
    /\ Release(w)
    /\ NextTrial(w)
    /\ UNCHANGED <<bigram_freq, stdout, mainpc, calls>>

\* The for loop of the closure is exhausted: the task completes.
Finish(w) ==
    /\ pc[w] = "loop"
    /\ tries[w] = Share
    /\ pc' = [pc EXCEPT ![w] = "done"]
    /\ UNCHANGED <<bigram_freq, store, lock, tries, layout, current_cost, steps,
                   saved, stdout, stderr, mainpc, calls>>

\* main up to the spawn loop: the bigram file is loaded, the database (a
\* new, empty one) is set up, and the tasks are spawned.
Start ==
    /\ mainpc = "start"
    /\ \E file \in RunFiles : bigram_freq' \in load_bigram_frequencies(file)
    /\ pc' = [w \in Tasks |-> "loop"]
    /\ mainpc' = "join"
    /\ UNCHANGED <<store, lock, tries, layout, current_cost, steps, saved,
                   stdout, stderr, calls>>

\* for t in tasks { t.await.unwrap(); } Ok(())
Join ==
    /\ mainpc = "join"
    /\ \A w \in Tasks : pc[w] = "done"
    /\ mainpc' = "exit"
    /\ UNCHANGED <<bigram_freq, store, lock, pc, tries, layout, current_cost, steps,
                   saved, stdout, stderr, calls>>

\* The closure of a task; the history calls is kept by sequential callers only.
Task(w) ==
    \/ Generate(w) /\ UNCHANGED calls
    \/ Iterate(w) /\ UNCHANGED calls
    \/ CheckLock(w)
    \/ CheckQuery(w)
    \/ Report(w)
    \/ SaveLock(w)
    \/ SaveQuery(w)
    \/ InsertLock(w)
    \/ Insert(w)
    \/ Finish(w)

Next == Start \/ (\E w \in Tasks : Task(w)) \/ Join

Spec == Init /\ [][Next]_vars

\* The tokio runtime keeps polling every spawned task and main; the Mutex
\* hands the lock to a waiter once it is free.
Fairness == WF_vars(Start) /\ (\A w \in Tasks : WF_vars(Task(w))) /\ WF_vars(Join)

FairSpec == Spec /\ Fairness

\* find_valley has returned to task w.
Returned(w) == pc[w] = "check_lock"

\* ------------------------------------------------------------- find_valley alone
\* One call of find_valley (by task 1) on any layout and any table of at
\* most MaxBigrams bigrams; the call has returned when pc[1] = "check_lock".
\* The history calls keeps, for each call, the layout it was given and
\* the number of times it has executed the layout.swap(i, j) of its Some branch.
ClimbStart ==
    /\ mainpc = "start"
    /\ \E n \in 0..MaxBigrams : \E map \in FrequencyTables(n) : bigram_freq' = SubSeq(map, 1, n)
    /\ pc' = [w \in Tasks |-> IF w = 1 THEN "loop" ELSE "done"]
    /\ mainpc' = "join"
    /\ UNCHANGED <<store, lock, tries, layout, current_cost, steps, saved,
                   stdout, stderr, calls>>

ClimbGenerate ==
    /\ Generate(1)
    /\ calls' = <<[start |-> layout'[1], swaps |-> 0]>>

ClimbIterate ==
    /\ Iterate(1)
    /\ calls' = [calls EXCEPT ![Len(calls)].swaps =
                                  IF layout'[1] # layout[1] THEN @ + 1 ELSE @]

ClimbNext == ClimbStart \/ ClimbGenerate \/ ClimbIterate

ClimbSpec == Init /\ [][ClimbNext]_vars

FairClimbSpec == ClimbSpec /\ WF_vars(ClimbNext)

\* ------------------------------------------------------------- find_valley twice
\* Two runs of the program on one bigrams.txt: each loads the file into a
\* HashMap of its own, and find_valley is called in both on the same layout.
\* The file is "ab 16", "cd 1", "bc 1", the first frequency being the least
\* integer whose successor is not a cost.
TwinFile == <<<<1, 2, 2^MantissaBits>>, <<3, 4, 1>>, <<2, 3, 1>>>>

TwinStart ==
    /\ mainpc = "start"
    /\ bigram_freq' \in load_bigram_frequencies(TwinFile)
    /\ pc' = [w \in Tasks |-> IF w = 1 THEN "loop" ELSE "done"]
    /\ mainpc' = "join"
    /\ UNCHANGED <<store, lock, tries, layout, current_cost, steps, saved,
                   stdout, stderr, calls>>

\* The first call has returned; its result is kept in calls, the file is
\* loaded again and find_valley is called on the layout of the first call.
Rerun ==
    /\ Returned(1)
    /\ Len(calls) = 1
    /\ bigram_freq' \in load_bigram_frequencies(TwinFile)
    /\ layout' = [layout EXCEPT ![1] = calls[1].start]
    /\ current_cost' = [current_cost EXCEPT ![1] = calculate_cost(calls[1].start, bigram_freq')]
    /\ steps' = [steps EXCEPT ![1] = 0]
    /\ pc' = [pc EXCEPT ![1] = "find_valley"]
    /\ calls' = <<[start |-> calls[1].start, swaps |-> calls[1].swaps,
                   result |-> [layout |-> layout[1], cost |-> current_cost[1],
                               steps |-> steps[1]]],
                  [start |-> calls[1].start, swaps |-> 0]>>
    /\ UNCHANGED <<store, lock, tries, saved, stdout, stderr, mainpc>>

TwinNext == TwinStart \/ ClimbGenerate \/ ClimbIterate \/ Rerun

TwinSpec == Init /\ [][TwinNext]_vars

\* ------------------------------------------------------------- save_to_db alone
\* A sequential caller (in the place of task 1) that calls save_to_db twice,
\* with any results.
SampleLayouts == {ALPHABET, [i \in Positions |-> ALPHABET[NumSymbols + 1 - i]]}
SampleCosts == {0, 1}
SampleSteps == {1, 2}

Results == [layout : SampleLayouts, cost : SampleCosts, steps : SampleSteps]

\* setup_db opens a table that is empty or holds one row already.
StoreStart ==
    /\ mainpc = "start"
    /\ store' \in {<<>>} \cup {<<r>> : r \in Results}
    /\ pc' = [w \in Tasks |-> IF w = 1 THEN "loop" ELSE "done"]
    /\ mainpc' = "join"
    /\ UNCHANGED <<bigram_freq, lock, tries, layout, current_cost, steps, saved,
                   stdout, stderr, calls>>

\* save_to_db(conn.clone(), result): the record of the call keeps its
\* arguments, the table before it and what the call before it returned.
Call(w) ==
    /\ pc[w] = "loop"
    /\ Len(calls) < 2
    /\ \E result \in Results :
          /\ layout' = [layout EXCEPT ![w] = result.layout]
          /\ current_cost' = [current_cost EXCEPT ![w] = result.cost]
          /\ steps' = [steps EXCEPT ![w] = result.steps]
          /\ calls' = Append(calls, [layout |-> result.layout, cost |-> result.cost,
                                     steps |-> result.steps, before |-> store,
                                     previous |-> saved[w]])
    /\ saved' = [saved EXCEPT ![w] = "none"]
    /\ pc' = [pc EXCEPT ![w] = "save_lock"]
    /\ UNCHANGED <<bigram_freq, store, lock, tries, stdout, stderr, mainpc>>

StoreNext == StoreStart \/ Call(1) \/ SaveLock(1) \/ SaveQuery(1) \/ InsertLock(1) \/ Insert(1)

StoreSpec == Init /\ [][StoreNext]_vars

\* ------------------------------------------------------------- properties
\* C1: the layout find_valley returns is a valley: for all positions i < j,
\* the layout with the symbols at i and j swapped costs not strictly less
\* than the returned cost (which is the cost of the returned layout).
C1_ReturnsValley ==
    Returned(1) =>
        \A i, j \in Positions :
            i < j =>
                LET c == calculate_cost(Swap(layout[1], i, j), bigram_freq)
                IN  /\ ~(c < current_cost[1])
                    /\ ~(c < calculate_cost(layout[1], bigram_freq))

\* A call that returned after applying at least two swaps.
C1_Witness == Returned(1) /\ steps[1] >= 3

\* C2: find_valley returns after finitely many iterations, and every
\* iteration but the last strictly decreases the cost.
C2_Terminates ==
    /\ <>Returned(1)
    /\ [][(pc[1] = "find_valley" /\ pc'[1] = "find_valley")
             => current_cost'[1] < current_cost[1]]_vars

\* A call that returned after at least one iteration that was not the last.
C2_Witness == Returned(1) /\ steps[1] >= 2 /\ bigram_freq # NoBigrams

\* The number of rows of the table with layout l.
RowCount(rows, l) == Cardinality({k \in DOMAIN rows : rows[k].layout = l})

\* Task w is in save_to_db and this step returns from it.
SaveReturns(w) == pc[w] \in {"save_query", "insert"} /\ pc'[w] = "loop"

\* C3: the table never holds two rows of one layout, and when a save_to_db
\* call returns, with success or with the uniqueness conflict, the table
\* holds exactly one row of its layout, however the calls of the tasks
\* interleave.  (A call whose INSERT fails for another reason leaves no
\* row of its own.)
C3_OneRowPerLayout ==
    /\ [](\A l \in Layouts : RowCount(store, l) <= 1)
    /\ [][\A w \in Tasks :
             (SaveReturns(w) /\ saved'[w] \in {"Ok", "ErrConstraint"})
                 => RowCount(store', layout[w]) = 1]_vars

\* Both tasks saved the same layout at once: one row, one conflict.
C3_Witness ==
    /\ Len(store) = 1
    /\ \E w, v \in Tasks : saved[w] = "Ok" /\ saved[v] = "ErrConstraint"

\* C4: a save_to_db call that loses the race for its layout sees the layout
\* as present and returns success: no call returns the uniqueness conflict
\* as an error, and a failure is reported only for another failure.
C4_ConflictIsSilent ==
    /\ \A w \in Tasks : saved[w] # "ErrConstraint"
    /\ stderr <= Cardinality({w \in Tasks : saved[w] = "ErrIo"})

\* The second call of the sequential caller has returned.
SecondReturned == Len(calls) = 2 /\ pc[1] = "loop"

\* C5: when save_to_db is called twice in sequence with the same layout and
\* the first call returned success, the second call returns success and
\* leaves the table as it was, with exactly one row of the layout; the row
\* carries the cost and steps of the first call when the first call
\* inserted it.
C5_SecondSaveIsNoOp ==
    (SecondReturned /\ calls[1].layout = calls[2].layout /\ calls[2].previous = "Ok")
        => /\ saved[1] = "Ok"
           /\ store = calls[2].before
           /\ RowCount(store, calls[1].layout) = 1
           /\ ~RowExists(calls[1].before, calls[1].layout)
                 => \E k \in DOMAIN store :
                        store[k] = [layout |-> calls[1].layout, cost |-> calls[1].cost,
                                    steps |-> calls[1].steps]

\* Two calls with one layout and different cost and steps; the first inserted.
C5_Witness ==
    /\ SecondReturned
    /\ calls[1].layout = calls[2].layout
    /\ calls[1].cost # calls[2].cost
    /\ calls[1].steps # calls[2].steps
    /\ calls[2].previous = "Ok"
    /\ calls[1].before = <<>>

\* C6: a layout is printed as found at most once in a run, and never when
\* the table already holds a row of it.
C6_ReportedOnce ==
    /\ \A l \in Layouts : stdout[l] <= 1
    /\ \A w \in Tasks : pc[w] = "print" => ~RowExists(store, layout[w])

\* Task w waits for the lock.
Waiting(w) == pc[w] \in {"check_lock", "save_lock", "insert_lock"}

\* C7: every task completes all of its share of the trials and main then
\* returns; a task never waits for the lock while it holds it, and a task
\* ends only with its share exhausted.
C7_RunTerminates ==
    /\ <>(mainpc = "exit" /\ \A w \in Tasks : pc[w] = "done" /\ tries[w] = Share)
    /\ [](\A w \in Tasks : Waiting(w) => lock # w)
    /\ [](\A w \in Tasks : pc[w] = "done" => tries[w] = Share)

\* A run that ended after the tasks contended for one layout.
C7_Witness == mainpc = "exit" /\ \E w \in Tasks : saved[w] = "ErrConstraint"

\* C8: an INSERT that fails leaves the table as it was, prints one line to
\* stderr, frees the lock and takes its task to the next iteration of its
\* loop; nothing of the other tasks changes.
C8_FailedInsertNonFatal ==
    [][\A w \in Tasks :
          (pc[w] = "insert" /\ pc'[w] # "insert" /\ saved'[w] \in {"ErrConstraint", "ErrIo"})
              => /\ store' = store
                 /\ stderr' = stderr + 1
                 /\ lock' = 0
                 /\ pc'[w] = "loop"
                 /\ tries'[w] = tries[w] + 1
                 /\ \A v \in Tasks \ {w} :
                        /\ pc'[v] = pc[v]
                        /\ tries'[v] = tries[v]
                        /\ layout'[v] = layout[v]
                        /\ saved'[v] = saved[v]]_vars

\* A task back at its loop after an INSERT that failed, another still at work.
C8_Witness ==
    \E w, v \in Tasks :
        /\ saved[w] = "ErrIo" /\ pc[w] = "loop" /\ stderr >= 1
        /\ v # w /\ pc[v] = "find_valley"

\* C9: every layout a task holds is a permutation of ALPHABET, and so is
\* it with any candidate swap applied, and so is the layout of every row.
C9_LayoutsArePermutations ==
    /\ \A w \in Tasks :
          layout[w] # NoLayout
              => /\ IsPermutation(layout[w])
                 /\ \A i, j \in Positions : i < j => IsPermutation(Swap(layout[w], i, j))
    /\ \A k \in DOMAIN store : IsPermutation(store[k].layout)

\* A row in the table and a task in find_valley after a swap.
C9_Witness == Len(store) >= 1 /\ \E w \in Tasks : pc[w] = "find_valley" /\ steps[w] >= 1

\* C10: every step keeps every row of the table, in place and unchanged.
C10_AppendOnly ==
    [][/\ Len(store') >= Len(store)
       /\ \A k \in DOMAIN store : store'[k] = store[k]]_vars

\* A table of two rows.
C10_Witness == Len(store) >= 2

\* C11: two runs of find_valley on the same starting layout and the same
\* frequency table return the same layout, the same cost and the same steps.
C11_Deterministic ==
    (Returned(1) /\ Len(calls) = 2)
        => calls[1].result = [layout |-> layout[1], cost |-> current_cost[1],
                              steps |-> steps[1]]

\* The call of find_valley in progress (or returned) was given a table of
\* the single bigram (a, b) with frequency freq.
SingleBigram(a, b, freq) == bigram_freq = <<<<<<a, b>>, freq>>>>

\* C12: for a table of a single bigram of two distinct letters with
\* frequency w > 0, find_valley returns, from any starting layout (the
\* alphabet in natural order among them), a layout with the two letters at
\* adjacent positions, and the cost w.
C12_SingleBigramAdjacent ==
    \A a, b \in Range(ALPHABET), w \in 1..MaxFreq :
        (Returned(1) /\ a # b /\ SingleBigram(a, b, w))
            => /\ Position(layout[1], a) - Position(layout[1], b) \in {-1, 1}
               /\ current_cost[1] = w

\* A call that returned from the alphabet in natural order, for the bigram
\* of its first and last letters, after a swap.
C12_Witness ==
    /\ Returned(1)
    /\ SingleBigram(ALPHABET[1], ALPHABET[NumSymbols], MaxFreq)
    /\ calls[1].start = ALPHABET
    /\ calls[1].swaps >= 1

\* No single swap strictly reduces the cost of layout l.
IsValley(l) ==
    \A i, j \in Positions :
        i < j => ~(calculate_cost(Swap(l, i, j), bigram_freq) < calculate_cost(l, bigram_freq))

\* The layout is a valley in every case when the table is empty.
StartIsValley == calls # <<>> /\ (IsValley(calls[1].start) \/ bigram_freq = NoBigrams)

\* C13: when no single swap strictly reduces the cost of the starting
\* layout (as with the empty table, where every cost is 0), find_valley
\* makes one pass and returns steps = 1, the starting layout and its cost.
C13_ValleyReturnsAtOnce ==
    /\ (pc[1] = "find_valley" /\ StartIsValley) => steps[1] = 0
    /\ (Returned(1) /\ StartIsValley)
           => /\ steps[1] = 1
              /\ layout[1] = calls[1].start
              /\ current_cost[1] = calculate_cost(calls[1].start, bigram_freq)
              /\ calls[1].swaps = 0
    /\ (Returned(1) /\ bigram_freq = NoBigrams) => current_cost[1] = 0

\* A call that returned on a valley of positive cost.
C13_Witness == Returned(1) /\ StartIsValley /\ current_cost[1] > 0

\* Task 1 is in the loop of find_valley, about to make a pass.
InLoop == pc[1] = "find_valley"

\* C14: in one run of find_valley no iteration increases current_cost,
\* every iteration that applies a swap strictly decreases it, and after
\* each iteration current_cost is calculate_cost of the current layout.
C14_CostNeverIncreases ==
    /\ [](pc[1] \in {"find_valley", "check_lock"}
             => current_cost[1] = calculate_cost(layout[1], bigram_freq))
    /\ [][InLoop => /\ current_cost'[1] <= current_cost[1]
                    /\ layout'[1] # layout[1] => current_cost'[1] < current_cost[1]
                    /\ current_cost'[1] = calculate_cost(layout'[1], bigram_freq')]_vars

\* A call that returned after two swaps, on a layout that still costs something.
C14_Witness == Returned(1) /\ calls[1].swaps >= 2 /\ current_cost[1] > 0

\* The cost of the layout l with the symbols at i and j swapped.
CandidateCost(l, i, j) == calculate_cost(Swap(l, i, j), bigram_freq)

\* C15: an iteration of find_valley that changes the layout changes it by
\* one transposition (i, j), i < j, whose cost is the least over all
\* candidate pairs and which comes first, by i and then by j, among the
\* pairs of that cost; an iteration changes the layout whenever some
\* candidate costs strictly less than the current cost.
C15_SteepestFirst ==
    [][InLoop =>
          /\ layout'[1] # layout[1] =>
                \E i, j \in Positions :
                    /\ i < j
                    /\ layout'[1] = Swap(layout[1], i, j)
                    /\ \A p, q \in Positions :
                          p < q =>
                              /\ CandidateCost(layout[1], i, j) <= CandidateCost(layout[1], p, q)
                              /\ CandidateCost(layout[1], i, j) = CandidateCost(layout[1], p, q)
                                     => (i < p \/ (i = p /\ j <= q))
          /\ (\E p, q \in Positions :
                 p < q /\ CandidateCost(layout[1], p, q) < current_cost[1])
                 => layout'[1] # layout[1]]_vars

\* A call in its loop after a swap, on a table of two bigrams.
C15_Witness == InLoop /\ calls[1].swaps = 1 /\ Len(bigram_freq) = 2

\* C16: the steps find_valley returns is the number of swaps it applied
\* plus one, hence at least 1; in the loop, steps is the number of swaps
\* applied so far.
C16_StepsCountSwaps ==
    /\ InLoop => steps[1] = calls[Len(calls)].swaps
    /\ Returned(1) => (steps[1] = calls[Len(calls)].swaps + 1 /\ steps[1] >= 1)

\* A call that returned steps = 2 after one swap.
C16_Witness == Returned(1) /\ calls[1].swaps = 1 /\ steps[1] = 2

\* Task w is executing a query or an INSERT on the connection.
OnConnection(w) == pc[w] \in {"check_query", "save_query", "insert"}

\* C17: at most one task at a time executes an existence query or an
\* INSERT on the shared connection, the task that does holds the lock, and
\* it holds the lock for that one statement only: its next step frees it.
C17_StoreAccessExclusive ==
    /\ [](Cardinality({w \in Tasks : OnConnection(w)}) <= 1)
    /\ [](\A w \in Tasks : OnConnection(w) <=> lock = w)
    /\ [][\A w \in Tasks : (lock = w /\ pc'[w] # pc[w]) => lock' = 0]_vars

\* One task is inserting while the other waits for the lock.
C17_Witness ==
    \E w, v \in Tasks : w # v /\ pc[w] = "insert" /\ lock = w /\ Waiting(v)

\* C18: every row of the table of a run was returned by find_valley: its
\* layout is a valley for the run's table, its cost is calculate_cost of
\* the layout, and its steps is at least 1.
C18_RowsAreValleys ==
    \A k \in DOMAIN store :
        /\ IsValley(store[k].layout)
        /\ store[k].cost = calculate_cost(store[k].layout, bigram_freq)
        /\ store[k].steps >= 1

\* A row of positive cost, found after a swap.
C18_Witness == \E k \in DOMAIN store : store[k].cost > 0 /\ store[k].steps >= 2

\* This step ends an iteration of the for loop of task w.
TrialEnds(w) == pc[w] \in {"check_query", "save_query", "insert"} /\ pc'[w] = "loop"

\* C19: when a task ends a trial whose INSERT, if any, did not fail for a
\* reason other than the uniqueness conflict, the table holds a row of the
\* trial's valley layout; and a layout that has a row keeps having one.
C19_FinishedTrialIsStored ==
    /\ [][\A w \in Tasks :
             (TrialEnds(w) /\ saved'[w] # "ErrIo")
                 => \E k \in DOMAIN store' : store'[k].layout = layout[w]]_vars
    /\ [][\A l \in Layouts :
             (\E k \in DOMAIN store : store[k].layout = l)
                 => \E k \in DOMAIN store' : store'[k].layout = l]_vars

\* A task ended its trial on finding the row the other task had inserted.
C19_Witness ==
    \E w, v \in Tasks :
        /\ w # v /\ tries[w] = 1 /\ saved[w] = "none"
        /\ saved[v] = "Ok" /\ Len(store) = 1

\* The iterations of the for loops completed by all tasks together.
TotalTrials ==
    LET sum[n \in 0..CONCURRENT_TASKS] == IF n = 0 THEN 0 ELSE tries[n] + sum[n - 1]
    IN  sum[CONCURRENT_TASKS]

\* C20: every task makes floor(MAX_TRIES / CONCURRENT_TASKS) trials, no
\* more at any time and exactly that many when it ends; the trials of a
\* run never exceed MAX_TRIES, and a finished run made
\* CONCURRENT_TASKS * floor(MAX_TRIES / CONCURRENT_TASKS) of them, short of
\* MAX_TRIES by the remainder of the division.
C20_EvenShares ==
    /\ \A w \in Tasks : tries[w] <= MAX_TRIES \div CONCURRENT_TASKS
    /\ \A w \in Tasks : pc[w] = "done" => tries[w] = MAX_TRIES \div CONCURRENT_TASKS
    /\ TotalTrials <= MAX_TRIES
    /\ mainpc = "exit"
          => /\ TotalTrials = CONCURRENT_TASKS * (MAX_TRIES \div CONCURRENT_TASKS)
             /\ MAX_TRIES - TotalTrials = MAX_TRIES % CONCURRENT_TASKS

\* A finished run whose budget was not a multiple of the number of tasks.
C20_Witness ==
    mainpc = "exit" /\ MAX_TRIES % CONCURRENT_TASKS # 0 /\ TotalTrials < MAX_TRIES
====
